---- MODULE Spec2Model ----
(***************************************************************************)
(* Model of lambda/autoscale/autoscale.py: the Lambda handler that keeps   *)
(* Route53 A records and EC2 Name tags in step with the lifecycle          *)
(* notifications of an Auto Scaling Group.                                 *)
(*                                                                         *)
(* Strings are sequences of atoms (a placeholder name, "#", ".", "@", an   *)
(* instance id, a digit, a literal fragment), so that Python's `in`,       *)
(* str.replace, str.split and str() are computed, not assumed.             *)
(* An uncaught exception is recorded as its type and the source line that  *)
(* raises it.                                                              *)
(***************************************************************************)
EXTENDS Integers, Sequences, FiniteSets, TLC

VARIABLES
    Records,   \* the records of event['Records'] the loop has taken so far
    pc,        \* "loop", "done" (handler returned) or "fault" (exception / exit)
    exc,       \* the uncaught exception: [type, line]
    calls,     \* the mutating API calls made, in order
    logged,    \* the logger.error calls made: [rec, msg]
    zone,      \* Route53: hosted zone id -> set of resource record sets
    nameTag,   \* EC2: instance id -> value of its Name tag
    tags,      \* Auto Scaling: group name -> value of the hostname tag
    environ    \* os.environ['use_public_ip'], or Absent

vars == <<Records, pc, exc, calls, logged, zone, nameTag, tags, environ>>

----------------------------------------------------------------------------
(* Bounds *)

MaxBatch == 2

MaxZoneRecords == 1

----------------------------------------------------------------------------
(* Program constants *)

HOSTNAME_TAG_NAME == "asg:hostname_pattern"

LIFECYCLE_KEY == "LifecycleHookName"

ASG_KEY == "AutoScalingGroupName"

TTL == 3

possible_tags == <<"instanceid", "instance-count", "instance-index">>

LAUNCHING == "autoscaling:EC2_INSTANCE_LAUNCHING"

TERMINATING == "autoscaling:EC2_INSTANCE_TERMINATING"

LAUNCH_ERROR == "autoscaling:EC2_INSTANCE_LAUNCH_ERROR"

----------------------------------------------------------------------------
(* Python values and string operations *)

\* A key that a dict does not hold.
Absent == "<absent>"

NoExc == [type |-> "none", line |-> 0]

Raise(t, l) == [type |-> t, line |-> l]

\* `tok in s`
Contains(s, tok) == \E i \in 1..Len(s) : s[i] = tok

\* s.replace(old, new): every non-overlapping occurrence, left to right
RECURSIVE Replace(_, _, _)
Replace(s, old, new) ==
    IF Len(s) < Len(old) THEN s
    ELSE IF SubSeq(s, 1, Len(old)) = old
         THEN new \o Replace(SubSeq(s, Len(old) + 1, Len(s)), old, new)
         ELSE <<Head(s)>> \o Replace(Tail(s), old, new)

\* s.split(sep): the list of the pieces between the separators
RECURSIVE Split(_, _)
Split(s, sep) ==
    IF ~Contains(s, sep) THEN <<s>>
    ELSE LET i == CHOOSE k \in 1..Len(s) :
                      s[k] = sep /\ \A j \in 1..(k - 1) : s[j] # sep
         IN <<SubSeq(s, 1, i - 1)>> \o Split(SubSeq(s, i + 1, Len(s)), sep)

Digits == <<"0", "1", "2", "3", "4", "5", "6", "7", "8", "9">>

\* str(n) of a non-negative int
RECURSIVE Str(_)
Str(n) ==
    IF n < 10 THEN <<Digits[n + 1]>>
    ELSE Str(n \div 10) \o <<Digits[(n % 10) + 1]>>

PyStr(s) == [type |-> "str", value |-> s]

PyDict(d) == [type |-> "dict", value |-> d]

\* Python's ==: values of different types are never equal
PyEq(a, b) == a.type = b.type /\ a.value = b.value

\* list.index(x), zero-based; -1 stands for the ValueError
Index(list, x) ==
    IF \E i \in 1..Len(list) : PyEq(list[i], x)
    THEN (CHOOSE i \in 1..Len(list) :
              PyEq(list[i], x) /\ \A j \in 1..(i - 1) : ~PyEq(list[j], x)) - 1
    ELSE -1

----------------------------------------------------------------------------
(* The AWS account the handler talks to *)

ASGs == {"asg1", "asg2"}

InstanceIds == {"i-1", "i-2"}

ZoneIds == {"Z1"}

\* describe_auto_scaling_groups: desired capacity and member instances
AutoScalingGroups ==
    [a \in ASGs |->
        IF a = "asg1"
        THEN [DesiredCapacity |-> 2,
              Instances |-> <<PyDict([InstanceId |-> "i-1"]),
                              PyDict([InstanceId |-> "i-2"])>>]
        ELSE [DesiredCapacity |-> 12,
              Instances |-> <<PyDict([InstanceId |-> "i-2"])>>]]

\* describe_instances: i-2 has no public address
Reservations ==
    [i \in InstanceIds |->
        IF i = "i-1"
        THEN [PrivateIpAddress |-> "10.0.0.5", PublicIpAddress |-> "1.2.3.4"]
        ELSE [PrivateIpAddress |-> "10.0.0.6", PublicIpAddress |-> Absent]]

GoodTag == <<"web-", "#", "instanceid", ".", "ex", "@", "Z1">>

\* the values the hostname tag of asg1 may hold; <<>> stands for no tag
TagValues ==
    { GoodTag,
      <<"web-", "instanceid", ".", "ex", "@", "Z1">>,
      <<"web-", "#", "instance-count", ".", "ex", "@", "Z1">>,
      <<"web-", "instance-count", ".", "ex", "@", "Z1">>,
      <<"web-", "#", "instance-index", ".", "ex", "@", "Z1">>,
      <<"#", "instance-count", "-", "#", "instance-index", ".", "ex", "@", "Z1">>,
      <<"web", ".", "ex", "@", "Z1">>,
      <<"web-", "#", "instanceid", ".", "ex">>,
      <<>> }

\* the record sets a zone may hold before the invocation
SeedRecords ==
    { [Name |-> <<"web-", "i-1", ".", "ex">>, Type |-> "A", TTL |-> TTL,
       Value |-> "10.0.0.5"],
      [Name |-> <<"web-", "i-2", ".", "ex">>, Type |-> "A", TTL |-> TTL,
       Value |-> "10.0.0.6"],
      [Name |-> <<"web-", "i-1", ".", "ex">>, Type |-> "A", TTL |-> 300,
       Value |-> "10.0.0.9"] }

ZoneInits ==
    { rs \in SUBSET SeedRecords :
        /\ Cardinality(rs) <= MaxZoneRecords
        /\ \A r1, r2 \in rs : r1.Name = r2.Name => r1 = r2 }

\* the order in which Route53 lists names: atom by atom
AtomOrder ==
    <<"#", "-", ".", "0", "1", "2", "3", "4", "5", "6", "7", "8", "9", "@",
      "Z1", "ex", "i-1", "i-2", "instance-count", "instance-index",
      "instanceid", "web", "web-">>

Rank(a) == CHOOSE i \in 1..Len(AtomOrder) : AtomOrder[i] = a

RECURSIVE NameLeq(_, _)
NameLeq(a, b) ==
    IF a = <<>> THEN TRUE
    ELSE IF b = <<>> THEN FALSE
    ELSE IF Head(a) = Head(b) THEN NameLeq(Tail(a), Tail(b))
    ELSE Rank(Head(a)) < Rank(Head(b))

----------------------------------------------------------------------------
(* The SNS messages *)

Message(t, e, a, i, h, k) ==
    [LifecycleTransition |-> t, Event |-> e, AutoScalingGroupName |-> a,
     EC2InstanceId |-> i, LifecycleHookName |-> h, LifecycleActionToken |-> k]

Token(i) == IF i = "i-1" THEN "token-1" ELSE "token-2"

Transitions ==
    {LAUNCHING, TERMINATING, LAUNCH_ERROR, "autoscaling:EC2_INSTANCE_START"}

Messages ==
    \* lifecycle hook notifications
    { Message(t, Absent, a, i, "hook", Token(i)) :
          t \in Transitions, a \in ASGs, i \in InstanceIds }
    \cup
    \* the test notification sent when a hook is attached
    { Message(Absent, "autoscaling:TEST_NOTIFICATION", "asg1", Absent, Absent,
              Absent) }
    \cup
    \* messages with keys missing
    { Message(LAUNCHING, Absent, "asg2", "i-1", Absent, Absent),
      Message(LAUNCHING, Absent, "asg2", "i-1", "hook", Absent),
      Message(Absent, "autoscaling:TEST_NOTIFICATION", "asg1", Absent, "hook",
              Absent),
      Message(TERMINATING, Absent, Absent, "i-1", "hook", "token-1"),
      Message(LAUNCHING, Absent, "asg2", Absent, "hook", "token-1"),
      Message(Absent, Absent, "asg1", Absent, Absent, Absent) }

Has(message, key) == message[key] # Absent

----------------------------------------------------------------------------
(* The functions of autoscale.py.  Each returns a record of its outcome:  *)
(* the exception it raises (NoExc if none) and its value or effect.       *)

\* fetch_ip_from_ec2(instance_id) -> [exc, ip]
fetch_ip_from_ec2(instance_id) ==
    LET inst == Reservations[instance_id]
        key  == IF environ # Absent /\ environ = "true"
                THEN "PublicIpAddress" ELSE "PrivateIpAddress"
        line == IF key = "PublicIpAddress" THEN 24 ELSE 27
    IN IF inst[key] = Absent
       THEN [exc |-> Raise("KeyError", line), ip |-> Absent]
       ELSE [exc |-> NoExc, ip |-> inst[key]]

\* route53.list_resource_record_sets(StartRecordName, StartRecordType='A',
\* MaxItems='1'): the first record set at or after the start name
list_resource_record_sets(zone_id, start) ==
    LET from == { r \in zone[zone_id] : NameLeq(start, r.Name) }
    IN IF from = {} THEN <<>>
       ELSE <<CHOOSE r \in from : \A q \in from : NameLeq(r.Name, q.Name)>>

\* fetch_ip_from_route53(hostname, zone_id) -> [exc, ip]
fetch_ip_from_route53(hostname, zone_id) ==
    LET sets == list_resource_record_sets(zone_id, hostname)
    IN IF Len(sets) = 0
       THEN [exc |-> Raise("IndexError", 41), ip |-> Absent]
       ELSE [exc |-> NoExc, ip |-> sets[1].Value]

\* fetch_tag_metadata(asg_name) -> [exc, value]; value is the split tag
fetch_tag_metadata(asg_name) ==
    LET Tags == IF tags[asg_name] = <<>> THEN <<>>
                ELSE <<[Key |-> HOSTNAME_TAG_NAME, Value |-> tags[asg_name]]>>
    IN IF Len(Tags) = 0
       THEN [exc |-> Raise("IndexError", 58), value |-> <<>>]
       ELSE [exc |-> NoExc, value |-> Split(Tags[1].Value, "@")]

\* build_hostname without the check of lines 69-71
build_hostname_nocheck(hostname_pattern, instance_id, asg_name) ==
    IF Contains(hostname_pattern, "instance-count")
    THEN [exc |-> NoExc,
          hostname |-> Replace(hostname_pattern, <<"#", "instance-count">>,
                               Str(AutoScalingGroups[asg_name].DesiredCapacity))]
    ELSE [exc |-> NoExc,
          hostname |-> Replace(hostname_pattern, <<"#", "instanceid">>,
                               <<instance_id>>)]

\* build_hostname(hostname_pattern, instance_id, asg_name) -> [exc, hostname]
build_hostname(hostname_pattern, instance_id, asg_name) ==
    IF ~\E t \in 1..Len(possible_tags) :
            Contains(hostname_pattern, possible_tags[t])
    THEN [exc |-> Raise("SystemExit", 71), hostname |-> <<>>]
    ELSE IF Contains(hostname_pattern, "instance-count")
    THEN LET instance_count == AutoScalingGroups[asg_name].DesiredCapacity
         IN [exc |-> NoExc,
             hostname |-> Replace(hostname_pattern, <<"#", "instance-count">>,
                                  Str(instance_count))]
    ELSE IF Contains(hostname_pattern, "instance-index")
    THEN LET instance_index ==
                 Index(AutoScalingGroups[asg_name].Instances,
                       PyStr(instance_id))
         IN IF instance_index < 0
            THEN [exc |-> Raise("ValueError", 84), hostname |-> <<>>]
            ELSE [exc |-> NoExc,
                  hostname |-> Replace(hostname_pattern,
                                       <<"#", "instance-index">>,
                                       Str(instance_index))]
    ELSE [exc |-> NoExc,
          hostname |-> Replace(hostname_pattern, <<"#", "instanceid">>,
                               <<instance_id>>)]

\* update_name_tag(instance_id, hostname): ec2.create_tags -> [exc, call, nameTag]
\* rec is the record being processed, ok whether the API call succeeds
update_name_tag(instance_id, hostname, rec, ok) ==
    LET tag_name == Split(hostname, ".")[1]
        call == [api |-> "create_tags", rec |-> rec,
                 args |-> [Resources |-> <<instance_id>>, Key |-> "Name",
                           Value |-> tag_name]]
    IN IF ok
       THEN [exc |-> NoExc, call |-> call,
             nameTag |-> [nameTag EXCEPT ![instance_id] = tag_name]]
       ELSE [exc |-> Raise("ClientError", 98), call |-> call,
             nameTag |-> nameTag]

\* a change batch whose DELETE is accepted and removes nothing
change_resource_record_sets_keep(zone_id, change) ==
    LET rrs == change.ResourceRecordSet
        same == { r \in zone[zone_id] : r.Name = rrs.Name /\ r.Type = rrs.Type }
    IN IF change.Action = "UPSERT"
       THEN [ok |-> TRUE,
             zone |-> [zone EXCEPT ![zone_id] = (@ \ same) \cup {rrs}]]
       ELSE [ok |-> rrs \in zone[zone_id], zone |-> zone]

\* route53.change_resource_record_sets with one change: an UPSERT replaces the
\* record set of that name and type, a DELETE must name an existing record set
\* with its exact TTL and value
change_resource_record_sets(zone_id, change) ==
    LET rrs == change.ResourceRecordSet
        same == { r \in zone[zone_id] : r.Name = rrs.Name /\ r.Type = rrs.Type }
    IN IF change.Action = "UPSERT"
       THEN [ok |-> TRUE,
             zone |-> [zone EXCEPT ![zone_id] = (@ \ same) \cup {rrs}]]
       ELSE IF change.Action = "DELETE" /\ rrs \in zone[zone_id]
       THEN [ok |-> TRUE, zone |-> [zone EXCEPT ![zone_id] = @ \ {rrs}]]
       ELSE [ok |-> FALSE, zone |-> zone]

\* update_record(zone_id, ip, hostname, operation) -> [exc, call, zone]
update_record(zone_id, ip, hostname, operation, rec, ok) ==
    LET change == [Action |-> operation,
                   ResourceRecordSet |->
                       [Name |-> hostname, Type |-> "A", TTL |-> TTL,
                        Value |-> ip]]
        call == [api |-> "change_resource_record_sets", rec |-> rec,
                 args |-> [HostedZoneId |-> zone_id, Change |-> change]]
        res == change_resource_record_sets(zone_id, change)
    IN IF ~ok
       THEN [exc |-> Raise("ClientError", 113), call |-> call, zone |-> zone]
       ELSE IF ~res.ok
       THEN [exc |-> Raise("InvalidChangeBatch", 113), call |-> call,
             zone |-> zone]
       ELSE [exc |-> NoExc, call |-> call, zone |-> res.zone]

\* a dispatch that treats a launch error like a launch
Operation_launch_error_upsert(message) ==
    IF message.LifecycleTransition = LAUNCHING
       \/ message.LifecycleTransition = LAUNCH_ERROR THEN "UPSERT"
    ELSE IF message.LifecycleTransition = TERMINATING THEN "DELETE"
    ELSE "<unbound>"

\* a dispatch whose final else assigns DELETE
Operation_default_delete(message) ==
    IF message.LifecycleTransition = LAUNCHING THEN "UPSERT"
    ELSE "DELETE"

\* the operation process_message assigns, "<unbound>" when it assigns none
Operation(message) ==
    IF message.LifecycleTransition = LAUNCHING THEN "UPSERT"
    ELSE IF message.LifecycleTransition = TERMINATING
            \/ message.LifecycleTransition = LAUNCH_ERROR THEN "DELETE"
    ELSE "<unbound>"

\* the outcome of a function: what it raised and the state it leaves
Outcome(e, c, l, z, n) ==
    [exc |-> e, calls |-> c, logged |-> l, zone |-> z, nameTag |-> n]

\* process_message(message) for record number rec; failing is the mutating API
\* call that the service rejects in this step, if it is reached
process_message(message, rec, failing) ==
    LET Fault(e, l) == Outcome(e, calls, l, zone, nameTag)
        operation == Operation(message)
        log1 == IF operation = "<unbound>"
                THEN logged \cup {[rec |-> rec,
                                   msg |-> "Encountered unknown event type"]}
                ELSE logged
    IN
    IF ~Has(message, "LifecycleTransition")
    THEN IF ~Has(message, "Event")
         THEN Fault(Raise("KeyError", 134), logged)
         ELSE Fault(NoExc, logged)
    ELSE IF ~Has(message, "AutoScalingGroupName")
    THEN Fault(Raise("KeyError", 145), log1)
    ELSE IF ~Has(message, "EC2InstanceId")
    THEN Fault(Raise("KeyError", 146), log1)
    ELSE
    LET asg_name == message.AutoScalingGroupName
        instance_id == message.EC2InstanceId
        meta == fetch_tag_metadata(asg_name)
    IN
    IF meta.exc # NoExc THEN Fault(meta.exc, log1)
    ELSE IF Len(meta.value) # 2 THEN Fault(Raise("ValueError", 148), log1)
    ELSE
    LET hostname_pattern == meta.value[1]
        zone_id == meta.value[2][1]
        built == build_hostname(hostname_pattern, instance_id, asg_name)
        hostname == built.hostname
    IN
    IF built.exc.type = "SystemExit"
    THEN Fault(built.exc,
               log1 \cup {[rec |-> rec,
                           msg |-> "Hostname pattern must contain one of the following tags"]})
    ELSE IF built.exc # NoExc THEN Fault(built.exc, log1)
    ELSE IF operation = "<unbound>"
    THEN Fault(Raise("UnboundLocalError", 151), log1)
    ELSE IF operation = "UPSERT"
    THEN LET fetched == fetch_ip_from_ec2(instance_id)
             tagged == update_name_tag(instance_id, hostname, rec,
                                       failing # "create_tags")
             changed == update_record(zone_id, fetched.ip, hostname, operation,
                                      rec,
                                      failing # "change_resource_record_sets")
         IN IF fetched.exc # NoExc THEN Fault(fetched.exc, log1)
            ELSE IF tagged.exc # NoExc
            THEN Outcome(tagged.exc, Append(calls, tagged.call), log1, zone,
                         nameTag)
            ELSE Outcome(changed.exc, calls \o <<tagged.call, changed.call>>,
                         log1, changed.zone, tagged.nameTag)
    ELSE LET fetched == fetch_ip_from_route53(hostname, zone_id)
             changed == update_record(zone_id, fetched.ip, hostname, operation,
                                      rec,
                                      failing # "change_resource_record_sets")
         IN IF fetched.exc # NoExc THEN Fault(fetched.exc, log1)
            ELSE Outcome(changed.exc, Append(calls, changed.call), log1,
                         changed.zone, nameTag)

----------------------------------------------------------------------------
(* lambda_handler *)

Failures ==
    {"none", "create_tags", "change_resource_record_sets",
     "complete_lifecycle_action"}

Init ==
    /\ Records = <<>>
    /\ pc = "loop"
    /\ exc = NoExc
    /\ calls = <<>>
    /\ logged = {}
    /\ zone \in [ZoneIds -> ZoneInits]
    /\ nameTag = [i \in InstanceIds |-> <<>>]
    /\ tags \in {[a \in ASGs |-> IF a = "asg1" THEN v ELSE GoodTag] :
                    v \in TagValues}
    /\ environ \in {Absent, "true", "false"}

\* a loop that goes on after an exception
NextPc_swallow(e) == "loop"

\* an exception raised in the loop body is not caught: it ends the handler
NextPc(e) == IF e = NoExc THEN "loop" ELSE "fault"

\* one iteration of `for record in event['Records']: process_record(record)`
ProcessRecord ==
    /\ pc = "loop"
    /\ Len(Records) < MaxBatch
    /\ \E message \in Messages, failing \in Failures \ {"complete_lifecycle_action"} :
         \E out \in {process_message(message, Len(Records) + 1, failing)} :
            /\ Records' = Append(Records, message)
            /\ exc' = out.exc
            /\ pc' = NextPc(out.exc)
            /\ calls' = out.calls
            /\ logged' = out.logged
            /\ zone' = out.zone
            /\ nameTag' = out.nameTag
    /\ UNCHANGED <<tags, environ>>

\* the first record of the batch instead of the last
record_first == Records[1]

\* the loop variable after the loop: the last record of the batch
record == Records[Len(Records)]

\* the autoscaling.complete_lifecycle_action call for a message
CompleteCall(message) ==
    [api |-> "complete_lifecycle_action", rec |-> Len(Records),
     args |-> [LifecycleHookName |-> message.LifecycleHookName,
               AutoScalingGroupName |-> message.AutoScalingGroupName,
               InstanceId |-> message.EC2InstanceId,
               LifecycleActionToken |-> message.LifecycleActionToken,
               LifecycleActionResult |-> "CONTINUE"]]

\* the code after the loop: finish the lifecycle action of the last record
Finish ==
    /\ pc = "loop"
    /\ \E failing \in {"none", "complete_lifecycle_action"} :
         IF Len(Records) = 0
         THEN /\ failing = "none"
              /\ pc' = "fault"
              /\ exc' = Raise("UnboundLocalError", 174)
              /\ UNCHANGED <<calls, logged>>
         ELSE
         LET message == record
         IN IF Has(message, LIFECYCLE_KEY) /\ Has(message, ASG_KEY)
            THEN IF ~Has(message, "EC2InstanceId")
                 THEN /\ failing = "none"
                      /\ pc' = "fault"
                      /\ exc' = Raise("KeyError", 179)
                      /\ UNCHANGED <<calls, logged>>
                 ELSE IF ~Has(message, "LifecycleActionToken")
                 THEN /\ failing = "none"
                      /\ pc' = "fault"
                      /\ exc' = Raise("KeyError", 180)
                      /\ UNCHANGED <<calls, logged>>
                 ELSE /\ calls' = Append(calls, CompleteCall(message))
                      /\ pc' = IF failing = "none" THEN "done" ELSE "fault"
                      /\ exc' = IF failing = "none" THEN NoExc
                                ELSE Raise("ClientError", 176)
                      /\ UNCHANGED logged
            ELSE /\ failing = "none"
                 /\ pc' = "done"
                 /\ exc' = NoExc
                 /\ logged' = logged \cup {[rec |-> 0,
                                            msg |-> "No valid JSON message"]}
                 /\ UNCHANGED calls
    /\ UNCHANGED <<Records, zone, nameTag, tags, environ>>

Next == ProcessRecord \/ Finish

Spec == Init /\ [][Next]_vars

----------------------------------------------------------------------------
(* Vocabulary of the properties *)

IsChange(c) == c.api = "change_resource_record_sets"

IsComplete(c) == c.api = "complete_lifecycle_action"

IsCreateTags(c) == c.api = "create_tags"

CompleteCalls == { j \in 1..Len(calls) : IsComplete(calls[j]) }

\* the loop ran to its end: every record taken was processed without error
LoopDone == pc = "done" \/ (pc = "fault" /\ exc.line >= 173)

\* the message gets as far as the build_hostname call of line 149
ReachesBuild(m) ==
    /\ Has(m, "LifecycleTransition")
    /\ Has(m, "AutoScalingGroupName")
    /\ Has(m, "EC2InstanceId")
    /\ fetch_tag_metadata(m.AutoScalingGroupName).exc = NoExc
    /\ Len(fetch_tag_metadata(m.AutoScalingGroupName).value) = 2

PatternOf(m) == fetch_tag_metadata(m.AutoScalingGroupName).value[1]

ZoneOf(m) == fetch_tag_metadata(m.AutoScalingGroupName).value[2][1]

BuiltFor(m) ==
    build_hostname(PatternOf(m), m.EC2InstanceId, m.AutoScalingGroupName)

NoPlaceholder(p) ==
    \A t \in 1..Len(possible_tags) : ~Contains(p, possible_tags[t])

\* the step processes message m as the next record of the batch
Takes(m) == Records' = Append(Records, m)

NewCalls == (Len(calls) + 1)..Len(calls')

----------------------------------------------------------------------------
(* C1 *)

\* C1: every DNS change that process_message sends carries Action UPSERT when
\* the transition of its message is EC2_INSTANCE_LAUNCHING and DELETE when it is
\* EC2_INSTANCE_TERMINATING or EC2_INSTANCE_LAUNCH_ERROR; no other pairing of
\* transition and action reaches the zone.
C1_ActionFollowsTransition ==
    \A j \in 1..Len(calls) :
        IsChange(calls[j]) =>
            LET t == Records[calls[j].rec].LifecycleTransition
                a == calls[j].args.Change.Action
            IN \/ t = LAUNCHING /\ a = "UPSERT"
               \/ t \in {TERMINATING, LAUNCH_ERROR} /\ a = "DELETE"

\* a batch in which a LAUNCH_ERROR record deleted a record set after a LAUNCHING
\* record upserted one
C1_Witness ==
    /\ \E j \in 1..Len(calls) :
           /\ IsChange(calls[j])
           /\ calls[j].args.Change.Action = "DELETE"
           /\ Records[calls[j].rec].LifecycleTransition = LAUNCH_ERROR
    /\ \E j \in 1..Len(calls) :
           /\ IsChange(calls[j])
           /\ calls[j].args.Change.Action = "UPSERT"
    /\ pc = "loop"

----------------------------------------------------------------------------
(* C2 *)

\* the single completion call, made last, with every argument from message m
CompletedOnceFor(m) ==
    /\ Cardinality(CompleteCalls) = 1
    /\ Len(calls) \in CompleteCalls
    /\ calls[Len(calls)].args =
           [LifecycleHookName |-> m.LifecycleHookName,
            AutoScalingGroupName |-> m.AutoScalingGroupName,
            InstanceId |-> m.EC2InstanceId,
            LifecycleActionToken |-> m.LifecycleActionToken,
            LifecycleActionResult |-> "CONTINUE"]
    /\ m.LifecycleHookName # Absent /\ m.AutoScalingGroupName # Absent
    /\ m.EC2InstanceId # Absent /\ m.LifecycleActionToken # Absent

\* C2 as claimed: once a non-empty batch has been processed without error and
\* its last message carries LifecycleHookName and AutoScalingGroupName, the
\* handler has made exactly one complete_lifecycle_action call, with result
\* CONTINUE and all four values of the last message, after every DNS/tag change.
C2_AsClaimed ==
    (/\ LoopDone
     /\ Len(Records) > 0
     /\ Has(Records[Len(Records)], LIFECYCLE_KEY)
     /\ Has(Records[Len(Records)], ASG_KEY))
    => CompletedOnceFor(Records[Len(Records)])

\* C2 amended: the same, for a last message that also carries EC2InstanceId and
\* LifecycleActionToken.
C2_CompletesLastRecord ==
    (/\ LoopDone
     /\ Len(Records) > 0
     /\ Has(Records[Len(Records)], LIFECYCLE_KEY)
     /\ Has(Records[Len(Records)], ASG_KEY)
     /\ Has(Records[Len(Records)], "EC2InstanceId")
     /\ Has(Records[Len(Records)], "LifecycleActionToken"))
    => CompletedOnceFor(Records[Len(Records)])

\* a two-record batch of different messages, both with DNS changes, completed
C2_Witness ==
    /\ pc = "done"
    /\ Len(Records) = 2
    /\ Records[1] # Records[2]
    /\ \E j \in 1..Len(calls) : IsChange(calls[j]) /\ calls[j].rec = 1
    /\ \E j \in 1..Len(calls) : IsChange(calls[j]) /\ calls[j].rec = 2
    /\ CompletedOnceFor(Records[2])

----------------------------------------------------------------------------
(* C3 *)

\* C3 as claimed: when the handler has ended on an empty batch, or on a batch
\* processed without error whose last message lacks LifecycleHookName or
\* AutoScalingGroupName, it has logged the error, returned normally and made no
\* complete_lifecycle_action call.
C3_AsClaimed ==
    (/\ pc # "loop"
     /\ \/ Len(Records) = 0
        \/ /\ LoopDone
           /\ ~(Has(Records[Len(Records)], LIFECYCLE_KEY)
                /\ Has(Records[Len(Records)], ASG_KEY)))
    => /\ pc = "done"
       /\ [rec |-> 0, msg |-> "No valid JSON message"] \in logged
       /\ CompleteCalls = {}

----------------------------------------------------------------------------
(* C4 *)

\* C4: when process_message calls build_hostname with a pattern that holds none
\* of instanceid, instance-count, instance-index, the step ends in exit(1) of
\* line 71 having made no mutating call: the call log, the zone and the Name
\* tags are as the earlier records of the batch left them.
C4_BadPatternExitsBeforeMutation ==
    [][\A m \in Messages :
          (Takes(m) /\ ReachesBuild(m) /\ NoPlaceholder(PatternOf(m)))
          => /\ pc' = "fault"
             /\ exc' = Raise("SystemExit", 71)
             /\ calls' = calls
             /\ zone' = zone
             /\ nameTag' = nameTag]_vars

\* the second record of a batch hit the bad pattern after the first one had
\* tagged an instance and upserted its record
C4_Witness ==
    /\ pc = "fault"
    /\ exc = Raise("SystemExit", 71)
    /\ Len(Records) = 2
    /\ NoPlaceholder(PatternOf(Records[2]))
    /\ Len(calls) = 2
    /\ IsChange(calls[2])
    /\ calls[2].args.Change.Action = "UPSERT"
    /\ nameTag[Records[1].EC2InstanceId] # <<>>
    /\ \E r \in zone[ZoneOf(Records[1])] : r.Value = calls[2].args.Change.ResourceRecordSet.Value

----------------------------------------------------------------------------
(* C5 *)

\* the zero-based position of instance id i among the InstanceId values of the
\* group's instance entries, -1 if it is not a member
PositionOf(i, a) ==
    LET entries == AutoScalingGroups[a].Instances
    IN IF \E k \in 1..Len(entries) : entries[k].value.InstanceId = i
       THEN (CHOOSE k \in 1..Len(entries) :
                 /\ entries[k].value.InstanceId = i
                 /\ \A j \in 1..(k - 1) : entries[j].value.InstanceId # i) - 1
       ELSE -1

\* C5 as claimed: for every record that reaches build_hostname with a pattern
\* holding instance-index and not instance-count, build_hostname replaces the
\* placeholder by the zero-based position of the instance id in the group's
\* instance list, and fails only when the instance is not in that list.
C5_AsClaimed ==
    \A k \in 1..Len(Records) :
        LET m == Records[k]
        IN (/\ ReachesBuild(m)
            /\ Contains(PatternOf(m), "instance-index")
            /\ ~Contains(PatternOf(m), "instance-count"))
           => LET pos == PositionOf(m.EC2InstanceId, m.AutoScalingGroupName)
              IN IF pos >= 0
                 THEN /\ BuiltFor(m).exc = NoExc
                      /\ BuiltFor(m).hostname =
                             Replace(PatternOf(m), <<"#", "instance-index">>,
                                     Str(pos))
                 ELSE BuiltFor(m).exc # NoExc

----------------------------------------------------------------------------
(* C6 *)

\* C6 as claimed: for every record that reaches build_hostname with a pattern
\* holding instance-count and neither instanceid nor instance-index,
\* build_hostname returns the pattern with the placeholder (written with or
\* without its # marker) replaced by the decimal string of the desired
\* capacity, and the hostname no longer holds instance-count.
C6_AsClaimed ==
    \A k \in 1..Len(Records) :
        LET m == Records[k]
        IN (/\ ReachesBuild(m)
            /\ Contains(PatternOf(m), "instance-count")
            /\ ~Contains(PatternOf(m), "instance-index")
            /\ ~Contains(PatternOf(m), "instanceid"))
           => LET cap == Str(AutoScalingGroups[m.AutoScalingGroupName]
                                 .DesiredCapacity)
              IN /\ BuiltFor(m).exc = NoExc
                 /\ BuiltFor(m).hostname =
                        Replace(Replace(PatternOf(m),
                                        <<"#", "instance-count">>, cap),
                                <<"instance-count">>, cap)
                 /\ ~Contains(BuiltFor(m).hostname, "instance-count")

----------------------------------------------------------------------------
(* C7 *)

\* C7 as claimed: every DELETE that process_message sends names a record set
\* that the zone held, under exactly that hostname and with exactly that value,
\* when the record was processed (fetch_ip_from_route53 having failed
\* otherwise).
C7_AsClaimed ==
    [][\A j \in NewCalls :
          (IsChange(calls'[j]) /\ calls'[j].args.Change.Action = "DELETE")
          => \E r \in zone[calls'[j].args.HostedZoneId] :
                 /\ r.Name = calls'[j].args.Change.ResourceRecordSet.Name
                 /\ r.Value = calls'[j].args.Change.ResourceRecordSet.Value]_vars

----------------------------------------------------------------------------
(* C8 *)

\* the latest DNS change of the batch so far for hostname h in zone z was an
\* UPSERT
LastChangeIsUpsert(h, z) ==
    \E j \in 1..Len(calls) :
        /\ IsChange(calls[j])
        /\ calls[j].args.HostedZoneId = z
        /\ calls[j].args.Change.ResourceRecordSet.Name = h
        /\ calls[j].args.Change.Action = "UPSERT"
        /\ \A i \in (j + 1)..Len(calls) :
               IsChange(calls[i]) =>
                   \/ calls[i].args.HostedZoneId # z
                   \/ calls[i].args.Change.ResourceRecordSet.Name # h

\* C8: when a LAUNCHING record has upserted the A record h in zone z and a
\* TERMINATING or LAUNCH_ERROR record then expands to the same h and z, that
\* record is processed without a lookup or change-batch error, touches no Name
\* tag and makes no create_tags call, and once its DELETE is accepted z holds
\* no A record named h.
C8_UpsertThenDeleteLeavesNoRecord ==
    [][\A m \in Messages :
          (/\ Takes(m)
           /\ Operation(m) = "DELETE"
           /\ ReachesBuild(m)
           /\ BuiltFor(m).exc = NoExc
           /\ LastChangeIsUpsert(BuiltFor(m).hostname, ZoneOf(m)))
          => /\ exc'.type \in {"none", "ClientError"}
             /\ nameTag' = nameTag
             /\ \A j \in NewCalls : ~IsCreateTags(calls'[j])
             /\ \E j \in NewCalls :
                    /\ IsChange(calls'[j])
                    /\ calls'[j].args.Change.Action = "DELETE"
                    /\ calls'[j].args.Change.ResourceRecordSet.Name =
                           BuiltFor(m).hostname
             /\ exc' = NoExc =>
                    ~\E r \in zone'[ZoneOf(m)] :
                         r.Name = BuiltFor(m).hostname /\ r.Type = "A"]_vars

\* a LAUNCHING record upserted h, the next record deleted it, and h is gone
C8_Witness ==
    /\ pc = "loop"
    /\ Len(Records) = 2
    /\ Records[1].LifecycleTransition = LAUNCHING
    /\ Records[2].LifecycleTransition \in {TERMINATING, LAUNCH_ERROR}
    /\ Len(calls) = 3
    /\ IsCreateTags(calls[1]) /\ IsChange(calls[2]) /\ IsChange(calls[3])
    /\ calls[2].args.Change.Action = "UPSERT"
    /\ calls[3].args.Change.Action = "DELETE"
    /\ calls[2].args.Change.ResourceRecordSet = calls[3].args.Change.ResourceRecordSet
    /\ ~\E r \in zone[calls[3].args.HostedZoneId] :
           r.Name = calls[3].args.Change.ResourceRecordSet.Name

----------------------------------------------------------------------------
(* C9 *)

UnknownTransition(m) ==
    /\ Has(m, "LifecycleTransition")
    /\ m.LifecycleTransition \notin {LAUNCHING, TERMINATING, LAUNCH_ERROR}

\* C9: a record whose LifecycleTransition is present but is none of the three
\* known ones ends the invocation: its error is logged, the handler is stopped
\* by an exception (or exit) raised inside the loop, it is the last record
\* taken, and no create_tags, DNS change or lifecycle completion was made for it.
C9_UnknownTransitionIsFatal ==
    \A k \in 1..Len(Records) :
        UnknownTransition(Records[k])
        => /\ k = Len(Records)
           /\ pc = "fault"
           /\ exc # NoExc /\ exc.line < 173
           /\ [rec |-> k, msg |-> "Encountered unknown event type"] \in logged
           /\ \A j \in 1..Len(calls) : calls[j].rec # k
           /\ CompleteCalls = {}

\* an unknown transition reached the read of the unassigned operation, after an
\* earlier record had changed the zone
C9_Witness ==
    /\ pc = "fault"
    /\ exc = Raise("UnboundLocalError", 151)
    /\ Len(Records) = 2
    /\ UnknownTransition(Records[2])
    /\ Len(calls) > 0

----------------------------------------------------------------------------
(* C10 *)

\* C10: nothing runs after a record has failed (later records are not
\* processed, no completion is made); a complete_lifecycle_action call is made
\* only by the code after the loop, as the last call, when no record has
\* failed; and the step in which a record fails leaves the earlier calls, the
\* zone and every Name tag it did not itself set as they were.
C10_CompletionOnlyAfterCleanLoop ==
    [][/\ exc = NoExc
       /\ \A j \in NewCalls :
              IsComplete(calls'[j])
              => /\ Records' = Records
                 /\ j = Len(calls')
                 /\ calls'[j].rec = Len(Records)
                 /\ zone' = zone /\ nameTag' = nameTag
       /\ (exc' # NoExc /\ exc'.line < 173)
              => /\ pc' = "fault"
                 /\ SubSeq(calls', 1, Len(calls)) = calls
                 /\ zone' = zone
                 /\ \A j \in NewCalls : ~IsComplete(calls'[j])
                 /\ \A i \in InstanceIds :
                        nameTag'[i] # nameTag[i]
                        => \E j \in NewCalls :
                               /\ IsCreateTags(calls'[j])
                               /\ calls'[j].args.Resources = <<i>>]_vars

\* the second record failed on a lookup miss after the first had tagged its
\* instance and upserted its record; the last record carries a valid hook
C10_Witness ==
    /\ pc = "fault"
    /\ exc.type \in {"IndexError", "KeyError", "InvalidChangeBatch"}
    /\ exc.line < 173
    /\ Len(Records) = 2
    /\ Has(Records[2], LIFECYCLE_KEY) /\ Has(Records[2], ASG_KEY)
    /\ Has(Records[2], "EC2InstanceId") /\ Has(Records[2], "LifecycleActionToken")
    /\ \E j \in 1..Len(calls) : IsChange(calls[j]) /\ calls[j].rec = 1
    /\ nameTag[Records[1].EC2InstanceId] # <<>>
    /\ \E r \in zone["Z1"] : r.Name = calls[2].args.Change.ResourceRecordSet.Name
    /\ CompleteCalls = {}

====
